---- MODULE Spec2Model ----
(***************************************************************************)
(* Reconciliation of a GKE control plane                                   *)
(* (cloud/services/container/clusters/reconcile.go): the Reconcile and     *)
(* Delete passes of Service, the diff and update planner, and the          *)
(* conversion of declared node pools (cloud/scope/managedmachinepool.go).  *)
(*                                                                         *)
(* Go values are represented as follows.  A string is the sequence of its  *)
(* characters.  A pointer is a record with a field nil.  A slice is a      *)
(* record [nil, elems], so that a nil slice and an empty slice differ.     *)
(* An error is the name of its kind, "nil" being no error.                 *)
(***************************************************************************)
EXTENDS Naturals, Sequences, FiniteSets, TLC

(* ---------------------------- bounds ----------------------------------- *)

\* the most node pools a desired state declares
MaxPools == 2

\* the longest desired control-plane version, in characters
MaxVerLen == 2

\* the most passes (Reconcile or Delete) of one behaviour
MaxPasses == 2

\* the longest allow-list of a compared MasterAuthorizedNetworksConfig
MaxBlocks == 2

(* ------------------------- value domains ------------------------------- *)

VersionChars == {"1", "2"}

BoundedSeq(S, n) == UNION {[1..k -> S] : k \in 0..n}

\* Spec.ControlPlaneVersion is a *string
NilVersion == [nil |-> TRUE, v |-> <<>>]

DesiredVersions ==
    {NilVersion} \cup {[nil |-> FALSE, v |-> w] : w \in BoundedSeq(VersionChars, MaxVerLen)}

\* Cluster.CurrentMasterVersion: "12"
ObservedVersions == {<<"1", "2">>}

\* Spec.ReleaseChannel is a *ReleaseChannel
DesiredChannels == {[nil |-> TRUE, v |-> ""], [nil |-> FALSE, v |-> "rapid"]}

ObservedChannels == {"UNSPECIFIED", "RAPID"}

NilSlice == [nil |-> TRUE, elems |-> <<>>]

EmptySlice == [nil |-> FALSE, elems |-> <<>>]

\* a nil *MasterAuthorizedNetworksConfig, desired or observed
NilConfig ==
    [nil |-> TRUE, Enabled |-> FALSE, CidrBlocks |-> NilSlice,
     GcpPublicCidrsAccessEnabled |-> "nil"]

\* the desired config: absent, or an allow-list of one block (the desired
\* record has no Enabled field; it is kept for the common shape and not read)
DesiredConfigs ==
    {NilConfig,
     [nil |-> FALSE, Enabled |-> FALSE,
      CidrBlocks |-> [nil |-> FALSE, elems |-> <<"10.0.0.0/8">>],
      GcpPublicCidrsAccessEnabled |-> "true"]}

\* the observed config: disabled with a nil allow-list, or enabled with one block
ObservedConfigs ==
    {[nil |-> FALSE, Enabled |-> FALSE, CidrBlocks |-> NilSlice,
      GcpPublicCidrsAccessEnabled |-> "false"],
     [nil |-> FALSE, Enabled |-> TRUE,
      CidrBlocks |-> [nil |-> FALSE, elems |-> <<"10.0.0.0/8">>],
      GcpPublicCidrsAccessEnabled |-> "true"]}

\* the i-th declared GCPManagedMachinePool; odd pools leave Spec.NodePoolName empty
DeclaredPool(i) ==
    [Name |-> i, NodePoolName |-> IF i % 2 = 0 THEN 100 + i ELSE 0]

DeclaredPools(n) == [i \in 1..n |-> DeclaredPool(i)]

(* ----------------------- condition model ------------------------------- *)

ReadyCondition == "Ready"
GKEControlPlaneReadyCondition == "GKEControlPlaneReady"
GKEControlPlaneCreatingCondition == "GKEControlPlaneCreating"
GKEControlPlaneUpdatingCondition == "GKEControlPlaneUpdating"
GKEControlPlaneDeletingCondition == "GKEControlPlaneDeleting"

ConditionTypes ==
    {ReadyCondition, GKEControlPlaneReadyCondition, GKEControlPlaneCreatingCondition,
     GKEControlPlaneUpdatingCondition, GKEControlPlaneDeletingCondition}

GKEControlPlaneCreatingReason == "GKEControlPlaneCreatingReason"
GKEControlPlaneCreatedReason == "GKEControlPlaneCreatedReason"
GKEControlPlaneUpdatedReason == "GKEControlPlaneUpdatedReason"
GKEControlPlaneDeletingReason == "GKEControlPlaneDeletingReason"
GKEControlPlaneDeletedReason == "GKEControlPlaneDeletedReason"
GKEControlPlaneErrorReason == "GKEControlPlaneErrorReason"
GKEControlPlaneReconciliationFailedReason == "GKEControlPlaneReconciliationFailedReason"
GKEControlPlaneRequiresAtLeastOneNodePoolReason == "GKEControlPlaneRequiresAtLeastOneNodePoolReason"

ConditionSeverityError == "Error"
ConditionSeverityInfo == "Info"

\* a condition that was never set
NoCondition == [status |-> "Unset", reason |-> "", severity |-> "", message |-> ""]

\* conditions.MarkTrue on the scope's condition setter
MarkTrue(s, t) ==
    [s EXCEPT !.Conditions[t] =
                  [status |-> "True", reason |-> "", severity |-> "", message |-> ""],
              !.written = @ \cup {t}]

\* conditions.MarkFalse on the scope's condition setter
MarkFalse(s, t, reason, severity, message) ==
    [s EXCEPT !.Conditions[t] =
                  [status |-> "False", reason |-> reason, severity |-> severity,
                   message |-> message],
              !.written = @ \cup {t}]

(* --------------------------- results ----------------------------------- *)

\* ctrl.Result{}.RequeueAfter and reconciler.DefaultRetryTime
ZeroDuration == "0"
DefaultRetryTime == "DefaultRetryTime"

\* the error kinds a pass can return
ErrGetCluster == "GetClusterError"
ErrGetAllNodePools == "GetAllNodePoolsError"
ErrAutopilotClusterMachinePoolsNotAllowed == "ErrAutopilotClusterMachinePoolsNotAllowed"
ErrPreflight == "PreflightError"
ErrCreateCluster == "CreateClusterError"
ErrUpdateCluster == "UpdateClusterError"
ErrDeleteCluster == "DeleteClusterError"
ErrUnexpectedClusterStatus == "ErrUnexpectedClusterStatus"
ErrKubeconfig == "KubeconfigError"
ErrAdditionalKubeconfigs == "AdditionalKubeconfigsError"

\* the errors that come from a provider RPC
ProviderErrors == {ErrGetCluster, ErrCreateCluster, ErrUpdateCluster, ErrDeleteCluster}

\* return ctrl.Result{RequeueAfter: d}, err; no return of the two functions
\* sets Result.Requeue
Return(s, d, err) ==
    [s |-> s, Requeue |-> FALSE, RequeueAfter |-> d, err |-> err, panicked |-> FALSE]

\* the pass faults (nil dereference, panic of a library) and returns nothing
Panic(s) ==
    [s |-> s, Requeue |-> FALSE, RequeueAfter |-> ZeroDuration, err |-> "nil",
     panicked |-> TRUE]

(* ----------------------- conversions and diff -------------------------- *)

convertToSdkReleaseChannel(channel) ==
    IF channel.nil THEN "UNSPECIFIED"
    ELSE CASE channel.v = "rapid" -> "RAPID"
           [] channel.v = "regular" -> "REGULAR"
           [] channel.v = "stable" -> "STABLE"
           [] OTHER -> "UNSPECIFIED"

convertToSdkMasterAuthorizedNetworksConfig(config) ==
    IF config.nil
    THEN [nil |-> FALSE, Enabled |-> FALSE, CidrBlocks |-> EmptySlice,
          GcpPublicCidrsAccessEnabled |-> "false"]
    ELSE [nil |-> FALSE, Enabled |-> TRUE,
          CidrBlocks |-> [nil |-> FALSE, elems |-> config.CidrBlocks.elems],
          GcpPublicCidrsAccessEnabled |-> config.GcpPublicCidrsAccessEnabled]

\* strings.HasPrefix(str, prefix)
HasPrefix(str, prefix) ==
    /\ Len(prefix) <= Len(str)
    /\ SubSeq(str, 1, Len(prefix)) = prefix

hasDesiredVersion(controlPlaneVersion, clusterVersion) ==
    IF controlPlaneVersion.nil THEN TRUE
    ELSE IF HasPrefix(clusterVersion, controlPlaneVersion.v) THEN TRUE
    ELSE controlPlaneVersion.v = clusterVersion

\* cmp.Equal on two []*MasterAuthorizedNetworksConfig_CidrBlock without options:
\* a nil slice equals only a nil slice, slices of which one is empty are equal
\* when both are, and comparing two elements reaches the unexported fields of
\* the generated message, for which cmp.Equal panics.
cmpEqual(x, y) ==
    IF x.nil \/ y.nil THEN (IF x.nil /\ y.nil THEN "true" ELSE "false")
    ELSE IF Len(x.elems) = 0 \/ Len(y.elems) = 0
         THEN (IF Len(x.elems) = Len(y.elems) THEN "true" ELSE "false")
         ELSE "panic"

\* "true", "false", or "panic" when cmp.Equal panics
compareMasterAuthorizedNetworksConfig(a, b) ==
    IF a.nil /\ b.nil THEN "true"
    ELSE IF a.nil \/ b.nil THEN "false"
    ELSE IF a.Enabled # b.Enabled THEN "false"
    ELSE IF \/ (a.GcpPublicCidrsAccessEnabled = "nil" /\ b.GcpPublicCidrsAccessEnabled # "nil")
            \/ (a.GcpPublicCidrsAccessEnabled # "nil" /\ b.GcpPublicCidrsAccessEnabled = "nil")
         THEN "false"
    ELSE IF /\ a.GcpPublicCidrsAccessEnabled # "nil"
            /\ b.GcpPublicCidrsAccessEnabled # "nil"
            /\ a.GcpPublicCidrsAccessEnabled # b.GcpPublicCidrsAccessEnabled
         THEN "false"
    ELSE IF \/ (a.CidrBlocks.nil /\ ~b.CidrBlocks.nil /\ Len(b.CidrBlocks.elems) = 0)
            \/ (b.CidrBlocks.nil /\ ~a.CidrBlocks.nil /\ Len(a.CidrBlocks.elems) = 0)
         THEN "true"
    ELSE cmpEqual(a.CidrBlocks, b.CidrBlocks)

\* a containerpb.ClusterUpdate with no field set
EmptyClusterUpdate ==
    [DesiredReleaseChannel |-> "nil", DesiredMasterVersion |-> <<>>,
     DesiredMasterAuthorizedNetworksConfig |-> NilConfig]

\* [needUpdate, Update, panicked]; panicked when the planner faults before returning
checkDiffAndPrepareUpdate(desired, existingCluster) ==
    LET desiredReleaseChannel == convertToSdkReleaseChannel(desired.ReleaseChannel)
        channelDiffers == desiredReleaseChannel # existingCluster.ReleaseChannel
        u1 == IF channelDiffers
              THEN [EmptyClusterUpdate EXCEPT !.DesiredReleaseChannel = desiredReleaseChannel]
              ELSE EmptyClusterUpdate
        versionBranch == hasDesiredVersion(desired.ControlPlaneVersion,
                                           existingCluster.CurrentMasterVersion)
        u2 == IF versionBranch
              THEN [u1 EXCEPT !.DesiredMasterVersion = desired.ControlPlaneVersion.v]
              ELSE u1
        desiredMasterAuthorizedNetworksConfig ==
            convertToSdkMasterAuthorizedNetworksConfig(desired.MasterAuthorizedNetworksConfig)
        same == compareMasterAuthorizedNetworksConfig(
                    desiredMasterAuthorizedNetworksConfig,
                    existingCluster.MasterAuthorizedNetworksConfig)
        u3 == IF same = "false"
              THEN [u2 EXCEPT !.DesiredMasterAuthorizedNetworksConfig =
                                  desiredMasterAuthorizedNetworksConfig]
              ELSE u2
    IN  IF versionBranch /\ desired.ControlPlaneVersion.nil
        THEN \* line 451 dereferences the nil ControlPlaneVersion
             [needUpdate |-> channelDiffers, Update |-> u1, panicked |-> TRUE]
        ELSE IF same = "panic"
        THEN [needUpdate |-> channelDiffers \/ versionBranch, Update |-> u2,
              panicked |-> TRUE]
        ELSE [needUpdate |-> channelDiffers \/ versionBranch \/ same = "false",
              Update |-> u3, panicked |-> FALSE]

\* ConvertToSdkNodePool: the SDK pool is named after Spec.NodePoolName, or after
\* the object when that is empty
ConvertToSdkNodePool(nodePool) ==
    [Name |-> IF nodePool.NodePoolName = 0 THEN nodePool.Name ELSE nodePool.NodePoolName]

\* ConvertToSdkNodePools appending the pools last to first
ConvertToSdkNodePools_Reversed(nodePools) ==
    [nil |-> FALSE,
     elems |-> [i \in 1..Len(nodePools) |->
                   ConvertToSdkNodePool(nodePools[Len(nodePools) + 1 - i])]]

\* ConvertToSdkNodePools: one SDK pool per declared pool, in the order of the list
ConvertToSdkNodePools(nodePools) ==
    [nil |-> FALSE, elems |-> [i \in 1..Len(nodePools) |-> ConvertToSdkNodePool(nodePools[i])]]

(* ------------------------------ state ---------------------------------- *)

VARIABLES
    desired,    \* the GCPManagedControlPlane spec and the declared node pools
    cluster,    \* the provider's cluster, as GetCluster would return it
    Status,     \* GCPManagedControlPlane.Status: Initialized, Ready, CurrentVersion, Conditions
    Endpoint,   \* GCPManagedControlPlane.Spec.Endpoint, written by SetEndpoint
    pass,       \* what the last pass did: calls issued, steps run, result returned
    passes,     \* the number of passes run so far
    compared    \* two configs and what compareMasterAuthorizedNetworksConfig reports on them

vars == <<desired, cluster, Status, Endpoint, pass, passes, compared>>

ClusterStatuses ==
    {"STATUS_UNSPECIFIED", "PROVISIONING", "RUNNING", "RECONCILING", "STOPPING",
     "ERROR", "DEGRADED"}

\* GetCluster answers NotFound
DisabledConfig ==
    [nil |-> FALSE, Enabled |-> FALSE, CidrBlocks |-> NilSlice,
     GcpPublicCidrsAccessEnabled |-> "false"]

NotFoundCluster ==
    [exists |-> FALSE, Status |-> "STATUS_UNSPECIFIED", CurrentMasterVersion |-> <<"1", "2">>,
     ReleaseChannel |-> "UNSPECIFIED", MasterAuthorizedNetworksConfig |-> DisabledConfig,
     Conditions |-> <<>>, Endpoint |-> "10.1.1.1"]

\* the clusters GetCluster can return; Conditions holds the messages of the
\* provider-reported status conditions.  The fields that only a RUNNING pass
\* reads vary in RUNNING clusters only, the status conditions in ERROR and
\* DEGRADED clusters only.
FoundClusters ==
    {c \in [exists : {TRUE}, Status : ClusterStatuses,
            CurrentMasterVersion : ObservedVersions,
            ReleaseChannel : ObservedChannels,
            MasterAuthorizedNetworksConfig : ObservedConfigs,
            Conditions : {<<>>, <<"quota exceeded", "second">>},
            Endpoint : {"10.1.1.1"}] :
        /\ c.Status # "RUNNING" =>
               /\ c.ReleaseChannel = "UNSPECIFIED"
               /\ c.MasterAuthorizedNetworksConfig = DisabledConfig
        /\ c.Status \notin {"ERROR", "DEGRADED"} => c.Conditions = <<>>}

\* the desired states: any pool declaration with a plain configuration, and
\* any configuration with one declared pool and no autopilot
DesiredStates ==
    {d \in [EnableAutopilot : BOOLEAN,
            NodePools : {DeclaredPools(n) : n \in 0..MaxPools},
            ReleaseChannel : DesiredChannels,
            ControlPlaneVersion : DesiredVersions,
            MasterAuthorizedNetworksConfig : DesiredConfigs] :
        \/ /\ d.ReleaseChannel.nil
           /\ d.ControlPlaneVersion = [nil |-> FALSE, v |-> <<"1">>]
           /\ d.MasterAuthorizedNetworksConfig.nil
        \/ /\ ~d.EnableAutopilot
           /\ Len(d.NodePools) = 1}

\* the step of a pass that fails; a pass stops at its first failure
Failures ==
    {"none", "describe", "list", "preflight", "call", "kubeconfig", "additionalKubeconfigs"}

NoConditions == [t \in ConditionTypes |-> NoCondition]

\* the create request: the Cluster message of CreateClusterRequest
NoCreateRequest ==
    [Autopilot |-> FALSE, ReleaseChannel |-> "UNSPECIFIED",
     MasterAuthorizedNetworksConfig |-> NilConfig, InitialClusterVersion |-> <<>>,
     NodePools |-> NilSlice]

\* the scope at the start of a pass: the status record, and nothing done yet
NewScope ==
    [Initialized |-> Status.Initialized, Ready |-> Status.Ready,
     CurrentVersion |-> Status.CurrentVersion, Conditions |-> Status.Conditions,
     Endpoint |-> Endpoint,
     written |-> {}, calls |-> <<>>, rpcErr |-> "nil", steps |-> <<>>, logged |-> <<>>,
     createRequest |-> NoCreateRequest, updateRequest |-> EmptyClusterUpdate]

\* no pass has run since the provider's cluster last changed
NoPass ==
    [op |-> "none", described |-> "none", written |-> {}, calls |-> <<>>,
     rpcErr |-> "nil", steps |-> <<>>,
     logged |-> <<>>, createRequest |-> NoCreateRequest,
     updateRequest |-> EmptyClusterUpdate,
     Requeue |-> FALSE, RequeueAfter |-> ZeroDuration, err |-> "nil",
     panicked |-> FALSE]

(* --------------------------- provider calls ---------------------------- *)

\* the pass p issued the provider call rpc
IssuedIn(p, rpc) == \E i \in 1..Len(p.calls) : p.calls[i] = rpc

\* [found, err]: NotFound is (nil, nil)
describeCluster(c, fail) ==
    IF fail = "describe" THEN [found |-> FALSE, err |-> ErrGetCluster]
    ELSE IF ~c.exists THEN [found |-> FALSE, err |-> "nil"]
    ELSE [found |-> TRUE, err |-> "nil"]

\* [s, err]. GetAllNodePools is read again with its error discarded; it is taken
\* to list the pools that the listing of the same pass just returned.
createCluster(s, d, fail) ==
    IF fail = "preflight" THEN [s |-> s, err |-> ErrPreflight]
    ELSE
      LET base == [Autopilot |-> d.EnableAutopilot,
                   ReleaseChannel |-> convertToSdkReleaseChannel(d.ReleaseChannel),
                   MasterAuthorizedNetworksConfig |->
                       convertToSdkMasterAuthorizedNetworksConfig(d.MasterAuthorizedNetworksConfig),
                   InitialClusterVersion |->
                       IF d.ControlPlaneVersion.nil THEN <<>> ELSE d.ControlPlaneVersion.v,
                   NodePools |-> IF ~d.EnableAutopilot
                                 THEN ConvertToSdkNodePools(d.NodePools)
                                 ELSE NilSlice]
          err == IF fail = "call" THEN ErrCreateCluster ELSE "nil"
          s1 == [s EXCEPT !.calls = Append(@, "CreateCluster"), !.createRequest = base,
                          !.rpcErr = err]
      IN  [s |-> s1, err |-> err]

updateCluster(s, updateClusterRequest, fail) ==
    LET err == IF fail = "call" THEN ErrUpdateCluster ELSE "nil"
    IN  [s |-> [s EXCEPT !.calls = Append(@, "UpdateCluster"),
                         !.updateRequest = updateClusterRequest, !.rpcErr = err],
         err |-> err]

deleteCluster(s, fail) ==
    LET err == IF fail = "call" THEN ErrDeleteCluster ELSE "nil"
    IN  [s |-> [s EXCEPT !.calls = Append(@, "DeleteCluster"), !.rpcErr = err],
         err |-> err]

(* ------------------------------ Reconcile ------------------------------ *)

\* lines 49-54: describe failed
ReconcileDescribeError(s, err) ==
    LET s1 == [s EXCEPT !.Initialized = FALSE, !.Ready = FALSE]
        s2 == MarkFalse(s1, ReadyCondition, GKEControlPlaneReconciliationFailedReason,
                        ConditionSeverityError, err)
    IN  Return(s2, ZeroDuration, err)

\* MarkNotCreated leaving the Creating condition as it was
MarkNotCreated_KeepCreating(s, reason, severity, message) ==
    LET s1 == MarkFalse(s, ReadyCondition, reason, severity, message)
    IN  MarkFalse(s1, GKEControlPlaneReadyCondition, reason, severity, message)

\* the three MarkFalse of lines 62-64, 70-72, 78-80 and 87-89
MarkNotCreated(s, reason, severity, message) ==
    LET s1 == MarkFalse(s, ReadyCondition, reason, severity, message)
        s2 == MarkFalse(s1, GKEControlPlaneReadyCondition, reason, severity, message)
    IN  MarkFalse(s2, GKEControlPlaneCreatingCondition, reason, severity, message)

\* lines 67-74: autopilot with declared pools
RejectAutopilotPools(s) ==
    Return(MarkNotCreated(s, GKEControlPlaneRequiresAtLeastOneNodePoolReason,
                          ConditionSeverityInfo, ""),
           ZeroDuration, ErrAutopilotClusterMachinePoolsNotAllowed)

\* WaitForNodePool ending the pass without asking for another one
WaitForNodePool_Done(s) ==
    Return(MarkNotCreated(s, GKEControlPlaneRequiresAtLeastOneNodePoolReason,
                          ConditionSeverityInfo, ""),
           ZeroDuration, "nil")

\* lines 75-82: no autopilot and no declared pool
WaitForNodePool(s) ==
    Return(MarkNotCreated(s, GKEControlPlaneRequiresAtLeastOneNodePoolReason,
                          ConditionSeverityInfo, ""),
           DefaultRetryTime, "nil")

\* lines 55-97: cluster not found
ReconcileNotFound(s, d, fail) ==
    LET s1 == [s EXCEPT !.Initialized = FALSE, !.Ready = FALSE]
        nodePools == d.NodePools
    IN  IF fail = "list"
        THEN Return(MarkNotCreated(s1, GKEControlPlaneReconciliationFailedReason,
                                   ConditionSeverityError, ErrGetAllNodePools),
                    ZeroDuration, ErrGetAllNodePools)
        ELSE IF d.EnableAutopilot /\ Len(nodePools) > 0 THEN RejectAutopilotPools(s1)
        ELSE IF ~d.EnableAutopilot /\ Len(nodePools) = 0 THEN WaitForNodePool(s1)
        ELSE
          LET c == createCluster(s1, d, fail)
          IN  IF c.err # "nil"
              THEN Return(MarkNotCreated(c.s, GKEControlPlaneReconciliationFailedReason,
                                         ConditionSeverityError, c.err),
                          ZeroDuration, c.err)
              ELSE
                LET s2 == MarkFalse(c.s, ReadyCondition, GKEControlPlaneCreatingReason,
                                    ConditionSeverityInfo, "")
                    s3 == MarkFalse(s2, GKEControlPlaneReadyCondition,
                                    GKEControlPlaneCreatingReason, ConditionSeverityInfo, "")
                    s4 == MarkTrue(s3, GKEControlPlaneCreatingCondition)
                IN  Return(s4, DefaultRetryTime, "nil")

\* ReconcileProvisioning flipping the Creating condition at every pass
ReconcileProvisioning_FlipCreating(s) ==
    LET s1 == MarkFalse(s, ReadyCondition, GKEControlPlaneCreatingReason,
                        ConditionSeverityInfo, "")
        s2 == MarkFalse(s1, GKEControlPlaneReadyCondition, GKEControlPlaneCreatingReason,
                        ConditionSeverityInfo, "")
        s3 == IF s.Conditions[GKEControlPlaneCreatingCondition].status = "True"
              THEN MarkFalse(s2, GKEControlPlaneCreatingCondition,
                             GKEControlPlaneCreatingReason, ConditionSeverityInfo, "")
              ELSE MarkTrue(s2, GKEControlPlaneCreatingCondition)
    IN  Return([s3 EXCEPT !.Initialized = FALSE, !.Ready = FALSE], DefaultRetryTime, "nil")

\* lines 103-110
ReconcileProvisioning(s) ==
    LET s1 == MarkFalse(s, ReadyCondition, GKEControlPlaneCreatingReason,
                        ConditionSeverityInfo, "")
        s2 == MarkFalse(s1, GKEControlPlaneReadyCondition, GKEControlPlaneCreatingReason,
                        ConditionSeverityInfo, "")
        s3 == MarkTrue(s2, GKEControlPlaneCreatingCondition)
    IN  Return([s3 EXCEPT !.Initialized = FALSE, !.Ready = FALSE], DefaultRetryTime, "nil")

\* ReconcileReconciling setting the initialized flag and not the ready flag
ReconcileReconciling_InitializedOnly(s) ==
    LET s1 == MarkTrue(s, GKEControlPlaneUpdatingCondition)
    IN  Return([s1 EXCEPT !.Initialized = TRUE], DefaultRetryTime, "nil")

\* ReconcileReconciling with the flags of the PROVISIONING case
ReconcileReconciling_NotReady(s) ==
    LET s1 == MarkTrue(s, GKEControlPlaneUpdatingCondition)
    IN  Return([s1 EXCEPT !.Initialized = FALSE, !.Ready = FALSE], DefaultRetryTime, "nil")

\* lines 111-116
ReconcileReconciling(s) ==
    LET s1 == MarkTrue(s, GKEControlPlaneUpdatingCondition)
    IN  Return([s1 EXCEPT !.Initialized = TRUE, !.Ready = TRUE], DefaultRetryTime, "nil")

\* ReconcileStopping asking for an immediate requeue in place of the delay
ReconcileStopping_RequeueNow(s) ==
    LET s1 == MarkFalse(s, ReadyCondition, GKEControlPlaneDeletingReason,
                        ConditionSeverityInfo, "")
        s2 == MarkFalse(s1, GKEControlPlaneReadyCondition, GKEControlPlaneDeletingReason,
                        ConditionSeverityInfo, "")
        s3 == MarkTrue(s2, GKEControlPlaneDeletingCondition)
    IN  [Return([s3 EXCEPT !.Initialized = FALSE, !.Ready = FALSE], ZeroDuration, "nil")
            EXCEPT !.Requeue = TRUE]

\* lines 117-124
ReconcileStopping(s) ==
    LET s1 == MarkFalse(s, ReadyCondition, GKEControlPlaneDeletingReason,
                        ConditionSeverityInfo, "")
        s2 == MarkFalse(s1, GKEControlPlaneReadyCondition, GKEControlPlaneDeletingReason,
                        ConditionSeverityInfo, "")
        s3 == MarkTrue(s2, GKEControlPlaneDeletingCondition)
    IN  Return([s3 EXCEPT !.Initialized = FALSE, !.Ready = FALSE], DefaultRetryTime, "nil")

\* ReconcileErrorDegraded deleting the broken cluster
ReconcileErrorDegraded_DeleteBroken(s, c) ==
    LET msg == IF Len(c.Conditions) > 0 THEN c.Conditions[1] ELSE ""
        s1 == [deleteCluster(s, "none").s EXCEPT !.logged = Append(@, msg)]
        s2 == MarkFalse(s1, GKEControlPlaneReadyCondition, GKEControlPlaneErrorReason,
                        ConditionSeverityError, "")
    IN  Return([s2 EXCEPT !.Ready = FALSE, !.Initialized = FALSE], ZeroDuration, "nil")

\* lines 125-134: the first provider-reported message goes to the log
ReconcileErrorDegraded(s, c) ==
    LET msg == IF Len(c.Conditions) > 0 THEN c.Conditions[1] ELSE ""
        s1 == [s EXCEPT !.logged = Append(@, msg)]
        s2 == MarkFalse(s1, GKEControlPlaneReadyCondition, GKEControlPlaneErrorReason,
                        ConditionSeverityError, "")
    IN  Return([s2 EXCEPT !.Ready = FALSE, !.Initialized = FALSE], ZeroDuration, "nil")

\* ReconcileUnexpectedStatus waiting for the status to change, as for a known one
ReconcileUnexpectedStatus_Requeue(s) ==
    Return(s, DefaultRetryTime, "nil")

\* lines 137-140
ReconcileUnexpectedStatus(s) ==
    Return(s, ZeroDuration, ErrUnexpectedClusterStatus)

\* ReconcileUpdate going on to the kubeconfig steps after a successful update
ReconcileUpdate_FallThrough(s, updateClusterRequest, fail) ==
    LET u == updateCluster(s, updateClusterRequest, fail)
    IN  IF u.err # "nil" THEN Return(u.s, ZeroDuration, u.err)
        ELSE LET s1 == MarkTrue(u.s, GKEControlPlaneUpdatingCondition)
                 s2 == [s1 EXCEPT !.steps = Append(Append(@, "reconcileKubeconfig"),
                                                   "reconcileAdditionalKubeconfigs")]
             IN  Return([s2 EXCEPT !.Initialized = TRUE, !.Ready = TRUE],
                        ZeroDuration, "nil")

\* ReconcileUpdate clearing the Updating condition when the update call fails
ReconcileUpdate_ClearOnFailure(s, updateClusterRequest, fail) ==
    LET u == updateCluster(s, updateClusterRequest, fail)
    IN  IF u.err # "nil"
        THEN Return(MarkFalse(u.s, GKEControlPlaneUpdatingCondition,
                              GKEControlPlaneReconciliationFailedReason,
                              ConditionSeverityError, u.err),
                    ZeroDuration, u.err)
        ELSE LET s1 == MarkTrue(u.s, GKEControlPlaneUpdatingCondition)
             IN  Return([s1 EXCEPT !.Initialized = TRUE, !.Ready = TRUE],
                        ZeroDuration, "nil")

\* lines 146-154: an update is needed
ReconcileUpdate(s, updateClusterRequest, fail) ==
    LET u == updateCluster(s, updateClusterRequest, fail)
    IN  IF u.err # "nil" THEN Return(u.s, ZeroDuration, u.err)
        ELSE LET s1 == MarkTrue(u.s, GKEControlPlaneUpdatingCondition)
             IN  Return([s1 EXCEPT !.Initialized = TRUE, !.Ready = TRUE],
                        ZeroDuration, "nil")

\* ReconcileUpToDate running the second kubeconfig step although the first failed
ReconcileUpToDate_RunBoth(s, c, fail) ==
    LET s1 == MarkFalse(s, GKEControlPlaneUpdatingCondition, GKEControlPlaneUpdatedReason,
                        ConditionSeverityInfo, "")
        s2 == [s1 EXCEPT !.steps = Append(@, "reconcileKubeconfig")]
        s3 == [s2 EXCEPT !.steps = Append(@, "reconcileAdditionalKubeconfigs")]
        s4 == [s3 EXCEPT !.Endpoint = c.Endpoint]
        s5 == MarkTrue(s4, ReadyCondition)
        s6 == MarkTrue(s5, GKEControlPlaneReadyCondition)
        s7 == MarkFalse(s6, GKEControlPlaneCreatingCondition, GKEControlPlaneCreatedReason,
                        ConditionSeverityInfo, "")
    IN  IF fail = "kubeconfig" THEN Return(s3, ZeroDuration, ErrKubeconfig)
        ELSE IF fail = "additionalKubeconfigs"
        THEN Return(s3, ZeroDuration, ErrAdditionalKubeconfigs)
        ELSE Return([s7 EXCEPT !.Ready = TRUE, !.Initialized = TRUE], ZeroDuration, "nil")

\* lines 156-179: no update is needed
ReconcileUpToDate(s, c, fail) ==
    LET s1 == MarkFalse(s, GKEControlPlaneUpdatingCondition, GKEControlPlaneUpdatedReason,
                        ConditionSeverityInfo, "")
        s2 == [s1 EXCEPT !.steps = Append(@, "reconcileKubeconfig")]
        s3 == [s2 EXCEPT !.steps = Append(@, "reconcileAdditionalKubeconfigs")]
        s4 == [s3 EXCEPT !.Endpoint = c.Endpoint]
        s5 == MarkTrue(s4, ReadyCondition)
        s6 == MarkTrue(s5, GKEControlPlaneReadyCondition)
        s7 == MarkFalse(s6, GKEControlPlaneCreatingCondition, GKEControlPlaneCreatedReason,
                        ConditionSeverityInfo, "")
    IN  IF fail = "kubeconfig" THEN Return(s2, ZeroDuration, ErrKubeconfig)
        ELSE IF fail = "additionalKubeconfigs"
        THEN Return(s3, ZeroDuration, ErrAdditionalKubeconfigs)
        ELSE Return([s7 EXCEPT !.Ready = TRUE, !.Initialized = TRUE], ZeroDuration, "nil")

\* lines 143-179: the cluster is RUNNING
ReconcileRunning(s, d, c, fail) ==
    LET diff == checkDiffAndPrepareUpdate(d, c)
        s1 == [s EXCEPT !.steps = Append(@, "checkDiffAndPrepareUpdate")]
    IN  IF diff.panicked THEN Panic(s1)
        ELSE IF diff.needUpdate THEN ReconcileUpdate(s1, diff.Update, fail)
        ELSE ReconcileUpToDate(s1, c, fail)

\* lines 99-141: the cluster was found
ReconcileFound(s, d, c, fail) ==
    LET s1 == [s EXCEPT !.CurrentVersion = c.CurrentMasterVersion]
    IN  CASE c.Status = "PROVISIONING" -> ReconcileProvisioning(s1)
          [] c.Status = "RECONCILING" -> ReconcileReconciling(s1)
          [] c.Status = "STOPPING" -> ReconcileStopping(s1)
          [] c.Status \in {"ERROR", "DEGRADED"} -> ReconcileErrorDegraded(s1, c)
          [] c.Status = "RUNNING" -> ReconcileRunning(s1, d, c, fail)
          [] OTHER -> ReconcileUnexpectedStatus(s1)

\* Service.Reconcile as a function of the scope, the desired state, the
\* provider's cluster and the step that fails
ReconcilePass(s, d, c, fail) ==
    LET g == describeCluster(c, fail)
        s1 == [s EXCEPT !.calls = Append(@, "GetCluster"), !.rpcErr = g.err]
    IN  IF g.err # "nil" THEN ReconcileDescribeError(s1, g.err)
        ELSE IF ~g.found THEN ReconcileNotFound(s1, d, fail)
        ELSE ReconcileFound(s1, d, c, fail)

(* ------------------------------- Delete -------------------------------- *)

\* DeleteIssue clearing the flags before the delete call, whatever its outcome
DeleteIssue_ClearFirst(s, fail) ==
    LET x == deleteCluster([s EXCEPT !.Initialized = FALSE, !.Ready = FALSE], fail)
    IN  IF x.err # "nil"
        THEN Return(MarkFalse(x.s, GKEControlPlaneDeletingCondition,
                              GKEControlPlaneReconciliationFailedReason,
                              ConditionSeverityError, x.err),
                    ZeroDuration, x.err)
        ELSE
          LET s2 == MarkFalse(x.s, ReadyCondition, GKEControlPlaneDeletingReason,
                              ConditionSeverityInfo, "")
              s3 == MarkFalse(s2, GKEControlPlaneReadyCondition,
                              GKEControlPlaneDeletingReason, ConditionSeverityInfo, "")
          IN  Return(MarkTrue(s3, GKEControlPlaneDeletingCondition), ZeroDuration, "nil")

\* lines 213-224: the delete call and its outcome
DeleteIssue(s, fail) ==
    LET x == deleteCluster(s, fail)
    IN  IF x.err # "nil"
        THEN Return(MarkFalse(x.s, GKEControlPlaneDeletingCondition,
                              GKEControlPlaneReconciliationFailedReason,
                              ConditionSeverityError, x.err),
                    ZeroDuration, x.err)
        ELSE
          LET s1 == [x.s EXCEPT !.Initialized = FALSE, !.Ready = FALSE]
              s2 == MarkFalse(s1, ReadyCondition, GKEControlPlaneDeletingReason,
                              ConditionSeverityInfo, "")
              s3 == MarkFalse(s2, GKEControlPlaneReadyCondition,
                              GKEControlPlaneDeletingReason, ConditionSeverityInfo, "")
          IN  Return(MarkTrue(s3, GKEControlPlaneDeletingCondition), ZeroDuration, "nil")

\* DeletePass marking the deletion as under way while the cluster is still
\* PROVISIONING or RECONCILING
DeletePass_MarkWhileBusy(s, c, fail) ==
    LET g == describeCluster(c, fail)
        s1 == [s EXCEPT !.calls = Append(@, "GetCluster"), !.rpcErr = g.err]
    IN  IF g.err # "nil" THEN Return(s1, ZeroDuration, g.err)
        ELSE IF ~g.found
        THEN Return(MarkFalse(s1, GKEControlPlaneDeletingCondition,
                              GKEControlPlaneDeletedReason, ConditionSeverityInfo, ""),
                    ZeroDuration, "nil")
        ELSE CASE c.Status \in {"PROVISIONING", "RECONCILING", "STOPPING"} ->
                    LET s2 == MarkFalse(s1, GKEControlPlaneReadyCondition,
                                        GKEControlPlaneDeletingReason,
                                        ConditionSeverityInfo, "")
                    IN  Return(MarkTrue(s2, GKEControlPlaneDeletingCondition),
                               ZeroDuration, "nil")
               [] OTHER -> DeleteIssue(s1, fail)

\* DeletePass returning on a cluster that is gone without recording it
DeletePass_ForgetDeleted(s, c, fail) ==
    LET g == describeCluster(c, fail)
        s1 == [s EXCEPT !.calls = Append(@, "GetCluster"), !.rpcErr = g.err]
    IN  IF g.err # "nil" THEN Return(s1, ZeroDuration, g.err)
        ELSE IF ~g.found
        THEN Return(s1, ZeroDuration, "nil")
        ELSE CASE c.Status = "PROVISIONING" -> Return(s1, ZeroDuration, "nil")
               [] c.Status = "RECONCILING" -> Return(s1, ZeroDuration, "nil")
               [] c.Status = "STOPPING" ->
                    LET s2 == MarkFalse(s1, GKEControlPlaneReadyCondition,
                                        GKEControlPlaneDeletingReason,
                                        ConditionSeverityInfo, "")
                    IN  Return(MarkTrue(s2, GKEControlPlaneDeletingCondition),
                               ZeroDuration, "nil")
               [] OTHER -> DeleteIssue(s1, fail)

\* Service.Delete, lines 183-216
DeletePass(s, c, fail) ==
    LET g == describeCluster(c, fail)
        s1 == [s EXCEPT !.calls = Append(@, "GetCluster"), !.rpcErr = g.err]
    IN  IF g.err # "nil" THEN Return(s1, ZeroDuration, g.err)
        ELSE IF ~g.found
        THEN Return(MarkFalse(s1, GKEControlPlaneDeletingCondition,
                              GKEControlPlaneDeletedReason, ConditionSeverityInfo, ""),
                    ZeroDuration, "nil")
        ELSE CASE c.Status = "PROVISIONING" -> Return(s1, ZeroDuration, "nil")
               [] c.Status = "RECONCILING" -> Return(s1, ZeroDuration, "nil")
               [] c.Status = "STOPPING" ->
                    LET s2 == MarkFalse(s1, GKEControlPlaneReadyCondition,
                                        GKEControlPlaneDeletingReason,
                                        ConditionSeverityInfo, "")
                    IN  Return(MarkTrue(s2, GKEControlPlaneDeletingCondition),
                               ZeroDuration, "nil")
               [] OTHER -> DeleteIssue(s1, fail)

(* ------------------- the comparison of two configs --------------------- *)

CidrBlockValues == {"10.0.0.0/8", "192.168.0.0/16"}

\* a []*MasterAuthorizedNetworksConfig_CidrBlock: nil, or of up to MaxBlocks blocks
ComparedSlices ==
    {NilSlice} \cup {[nil |-> FALSE, elems |-> e] : e \in BoundedSeq(CidrBlockValues, MaxBlocks)}

\* a *MasterAuthorizedNetworksConfig: nil, or any flags with any allow-list
ComparedConfigs ==
    {NilConfig} \cup
    [nil : {FALSE}, Enabled : BOOLEAN, CidrBlocks : ComparedSlices,
     GcpPublicCidrsAccessEnabled : {"nil", "true", "false"}]

\* nothing is being compared
NoComparison == [a |-> NilConfig, b |-> NilConfig, result |-> "none", converse |-> "none"]

(* ------------------------------ actions -------------------------------- *)

Init ==
    /\ desired \in DesiredStates
    /\ cluster = NotFoundCluster
    /\ Status = [Initialized |-> FALSE, Ready |-> FALSE, CurrentVersion |-> <<>>,
                 Conditions |-> NoConditions]
    /\ Endpoint = ""
    /\ pass = NoPass
    /\ passes = 0
    /\ compared = NoComparison

\* the status record, the endpoint and the record of the pass after a pass op
\* that ended as r with describe outcome g
FinishPass(op, r, g) ==
    /\ Status' = [Initialized |-> r.s.Initialized, Ready |-> r.s.Ready,
                  CurrentVersion |-> r.s.CurrentVersion, Conditions |-> r.s.Conditions]
    /\ Endpoint' = r.s.Endpoint
    /\ pass' = [op |-> op,
                described |-> IF g.err # "nil" THEN "error"
                              ELSE IF g.found THEN "found" ELSE "notfound",
                written |-> r.s.written, calls |-> r.s.calls, rpcErr |-> r.s.rpcErr,
                steps |-> r.s.steps,
                logged |-> r.s.logged, createRequest |-> r.s.createRequest,
                updateRequest |-> r.s.updateRequest,
                Requeue |-> r.Requeue, RequeueAfter |-> r.RequeueAfter, err |-> r.err,
                panicked |-> r.panicked]

\* the variables after a pass that leaves the provider's cluster as it is
Finish(op, r, g) ==
    /\ FinishPass(op, r, g)
    /\ passes' = passes + 1
    /\ UNCHANGED <<desired, cluster, compared>>

\* one Reconcile pass
Reconcile ==
    /\ passes < MaxPasses
    /\ \E fail \in Failures :
        Finish("Reconcile", ReconcilePass(NewScope, desired, cluster, fail),
               describeCluster(cluster, fail))

\* one Delete pass
Delete ==
    /\ passes < MaxPasses
    /\ \E fail \in Failures :
        Finish("Delete", DeletePass(NewScope, cluster, fail),
               describeCluster(cluster, fail))

\* the provider's cluster changes between two passes, or before the first:
\* it appears, progresses, is edited or upgraded by the provider, or disappears
ProviderChange ==
    /\ pass.op # "none" \/ passes = 0
    /\ passes < MaxPasses
    /\ \E c \in FoundClusters \cup {NotFoundCluster} :
           /\ c # cluster
           /\ cluster' = c
    /\ pass' = NoPass
    /\ UNCHANGED <<desired, Status, Endpoint, passes, compared>>

Next == Reconcile \/ Delete \/ ProviderChange

Spec == Init /\ [][Next]_vars

(* ---- Reconcile against a provider that applies what it is asked for ---- *)

\* the version a cluster created without a requested version gets
DefaultMasterVersion == <<"1", "2">>

\* the cluster the provider makes of an accepted create request
CreatedCluster(request) ==
    [exists |-> TRUE, Status |-> "PROVISIONING",
     CurrentMasterVersion |-> IF request.InitialClusterVersion = <<>>
                              THEN DefaultMasterVersion
                              ELSE request.InitialClusterVersion,
     ReleaseChannel |-> request.ReleaseChannel,
     MasterAuthorizedNetworksConfig |-> request.MasterAuthorizedNetworksConfig,
     Conditions |-> <<>>, Endpoint |-> "10.1.1.1"]

\* the cluster c after the provider accepted the update: the fields that the
\* update sets are applied as requested
UpdatedCluster(c, update) ==
    [c EXCEPT !.Status = "RECONCILING",
              !.ReleaseChannel = IF update.DesiredReleaseChannel = "nil" THEN @
                                 ELSE update.DesiredReleaseChannel,
              !.CurrentMasterVersion = IF update.DesiredMasterVersion = <<>> THEN @
                                       ELSE update.DesiredMasterVersion,
              !.MasterAuthorizedNetworksConfig =
                  IF update.DesiredMasterAuthorizedNetworksConfig.nil THEN @
                  ELSE update.DesiredMasterAuthorizedNetworksConfig]

\* a fixed desired state whose pool precondition holds and whose version, when
\* set, names one; no cluster yet
InitConverge ==
    /\ desired \in {d \in DesiredStates :
                       /\ \/ d.EnableAutopilot /\ Len(d.NodePools) = 0
                          \/ ~d.EnableAutopilot /\ Len(d.NodePools) >= 1
                       /\ d.ControlPlaneVersion.nil \/ d.ControlPlaneVersion.v # <<>>}
    /\ cluster = NotFoundCluster
    /\ Status = [Initialized |-> FALSE, Ready |-> FALSE, CurrentVersion |-> <<>>,
                 Conditions |-> NoConditions]
    /\ Endpoint = ""
    /\ pass = NoPass
    /\ passes = 0
    /\ compared = NoComparison

\* one Reconcile pass in which every call and every step succeeds; the
\* provider applies the create or the update that the pass issued
ReconcileAccepted ==
    LET r == ReconcilePass(NewScope, desired, cluster, "none")
    IN  /\ FinishPass("Reconcile", r, describeCluster(cluster, "none"))
        /\ cluster' = IF IssuedIn(r.s, "CreateCluster") THEN CreatedCluster(r.s.createRequest)
                      ELSE IF IssuedIn(r.s, "UpdateCluster")
                      THEN UpdatedCluster(cluster, r.s.updateRequest)
                      ELSE cluster
        /\ UNCHANGED <<desired, passes, compared>>

\* the provider finishes the operation in flight
ProviderFinish ==
    /\ cluster.exists /\ cluster.Status \in {"PROVISIONING", "RECONCILING"}
    /\ cluster' = [cluster EXCEPT !.Status = "RUNNING"]
    /\ UNCHANGED <<desired, Status, Endpoint, pass, passes, compared>>

NextConverge == ReconcileAccepted \/ ProviderFinish

\* Reconcile is invoked again and again, and the provider's operations end
SpecConverge ==
    /\ InitConverge /\ [][NextConverge]_vars
    /\ WF_vars(ReconcileAccepted) /\ WF_vars(ProviderFinish)

\* the deletion of a cluster: the cluster is in any state the provider can
\* report, or already gone, and the status record is the default one
InitDelete ==
    /\ desired \in DesiredStates
    /\ cluster \in FoundClusters \cup {NotFoundCluster}
    /\ Status = [Initialized |-> FALSE, Ready |-> FALSE, CurrentVersion |-> <<>>,
                 Conditions |-> NoConditions]
    /\ Endpoint = ""
    /\ pass = NoPass
    /\ passes = 0
    /\ compared = NoComparison

\* one Delete pass in which every call succeeds; the provider accepts the
\* delete call that the pass issued and starts to stop the cluster
DeleteAccepted ==
    LET r == DeletePass(NewScope, cluster, "none")
    IN  /\ FinishPass("Delete", r, describeCluster(cluster, "none"))
        /\ cluster' = IF IssuedIn(r.s, "DeleteCluster")
                      THEN [cluster EXCEPT !.Status = "STOPPING"]
                      ELSE cluster
        /\ UNCHANGED <<desired, passes, compared>>

\* one Delete pass in which the describe call or the delete call fails; the
\* provider's cluster is left as it is
DeleteRefused ==
    \E fail \in {"describe", "call"} :
        /\ FinishPass("Delete", DeletePass(NewScope, cluster, fail),
                      describeCluster(cluster, fail))
        /\ UNCHANGED <<desired, cluster, passes, compared>>

\* the provider finishes stopping the cluster: it is gone
ProviderStopped ==
    /\ cluster.exists /\ cluster.Status = "STOPPING"
    /\ cluster' = NotFoundCluster
    /\ UNCHANGED <<desired, Status, Endpoint, pass, passes, compared>>

NextDelete == DeleteAccepted \/ DeleteRefused \/ ProviderFinish \/ ProviderStopped

\* Delete is invoked again and again, an accepted delete call comes about,
\* and the provider's operations end
SpecDelete ==
    /\ InitDelete /\ [][NextDelete]_vars
    /\ WF_vars(DeleteAccepted) /\ WF_vars(ProviderFinish) /\ WF_vars(ProviderStopped)

\* two configs to compare, and a status record that no pass has touched
InitCompare ==
    /\ desired \in {d \in DesiredStates :
                       /\ ~d.EnableAutopilot /\ Len(d.NodePools) = 1
                       /\ d.ReleaseChannel.nil /\ d.ControlPlaneVersion.nil
                       /\ d.MasterAuthorizedNetworksConfig.nil}
    /\ cluster = NotFoundCluster
    /\ Status = [Initialized |-> FALSE, Ready |-> FALSE, CurrentVersion |-> <<>>,
                 Conditions |-> NoConditions]
    /\ Endpoint = ""
    /\ pass = NoPass
    /\ passes = 0
    /\ \E a \in ComparedConfigs, b \in ComparedConfigs :
           compared = [a |-> a, b |-> b, result |-> "none", converse |-> "none"]

\* compareMasterAuthorizedNetworksConfig(a, b), and the call with the
\* arguments exchanged
Compare ==
    /\ compared.result = "none"
    /\ compared' = [compared EXCEPT
                       !.result = compareMasterAuthorizedNetworksConfig(compared.a, compared.b),
                       !.converse = compareMasterAuthorizedNetworksConfig(compared.b, compared.a)]
    /\ UNCHANGED <<desired, cluster, Status, Endpoint, pass, passes>>

NextCompare == Compare

SpecCompare == InitCompare /\ [][NextCompare]_vars

(* ---------------------------- properties ------------------------------ *)

Issued(rpc) == IssuedIn(pass, rpc)

\* the pass p ran the step
RanIn(p, step) == \E i \in 1..Len(p.steps) : p.steps[i] = step

\* the outcomes of the last pass
Done == ~pass.panicked /\ pass.err = "nil" /\ pass.RequeueAfter = ZeroDuration

RequeuedAfterRetryTime ==
    ~pass.panicked /\ pass.err = "nil" /\ pass.RequeueAfter = DefaultRetryTime

FailedWith(err) == ~pass.panicked /\ pass.err = err /\ pass.RequeueAfter = ZeroDuration

\* the last pass was a Reconcile whose describe call found the cluster in status st
ReconcileSaw(st) ==
    pass.op = "Reconcile" /\ pass.described = "found" /\ cluster.Status = st

IsTrue(t) == Status.Conditions[t].status = "True"

IsFalse(t, reason) ==
    Status.Conditions[t].status = "False" /\ Status.Conditions[t].reason = reason

\* C1: a Reconcile pass that finds the cluster PROVISIONING, RECONCILING or
\* STOPPING returns requeue-after(DefaultRetryTime) with no error, issues no
\* create or update call, and leaves the flags and the progress condition of
\* the status table: PROVISIONING -> not initialized, not ready, Creating true;
\* RECONCILING -> initialized, ready, Updating true; STOPPING -> not
\* initialized, not ready, Deleting true.
C1_WaitStatuses ==
    \A st \in {"PROVISIONING", "RECONCILING", "STOPPING"} :
        ReconcileSaw(st) =>
            /\ RequeuedAfterRetryTime
            /\ ~Issued("CreateCluster") /\ ~Issued("UpdateCluster")
            /\ st = "PROVISIONING" =>
                   /\ ~Status.Initialized /\ ~Status.Ready
                   /\ IsTrue(GKEControlPlaneCreatingCondition)
            /\ st = "RECONCILING" =>
                   /\ Status.Initialized /\ Status.Ready
                   /\ IsTrue(GKEControlPlaneUpdatingCondition)
            /\ st = "STOPPING" =>
                   /\ ~Status.Initialized /\ ~Status.Ready
                   /\ IsTrue(GKEControlPlaneDeletingCondition)

\* a RECONCILING pass that follows a pass which left the cluster not ready
C1_Witness ==
    /\ ReconcileSaw("RECONCILING")
    /\ passes >= 2
    /\ IsTrue(GKEControlPlaneCreatingCondition)
    /\ Status.Ready

\* C6: a RUNNING Reconcile pass whose update call succeeds sets Updating true,
\* initialized and ready, returns done, and runs no kubeconfig step.
C6_UpdateSucceeded ==
    (ReconcileSaw("RUNNING") /\ Issued("UpdateCluster") /\ pass.rpcErr = "nil") =>
        /\ IsTrue(GKEControlPlaneUpdatingCondition)
        /\ Status.Initialized /\ Status.Ready
        /\ Done
        /\ ~RanIn(pass, "reconcileKubeconfig")
        /\ ~RanIn(pass, "reconcileAdditionalKubeconfigs")

\* a successful update of the release channel alone
C6_Witness ==
    /\ ReconcileSaw("RUNNING") /\ Issued("UpdateCluster") /\ pass.rpcErr = "nil"
    /\ pass.updateRequest.DesiredReleaseChannel = "RAPID"
    /\ pass.updateRequest.DesiredMasterVersion = <<>>

\* C7: when the update call of a RUNNING Reconcile pass fails, the pass
\* returns that error with no requeue-after, runs no kubeconfig step, and
\* every condition and the initialized and ready flags are as before the pass
\* (which writes none of them before the call).
C7_UpdateFailedFrame ==
    [][(/\ pass'.op = "Reconcile" /\ passes' = passes + 1
        /\ IssuedIn(pass', "UpdateCluster") /\ pass'.rpcErr # "nil") =>
           /\ ~pass'.panicked /\ pass'.err = pass'.rpcErr
           /\ pass'.RequeueAfter = ZeroDuration
           /\ Status'.Conditions = Status.Conditions
           /\ Status'.Initialized = Status.Initialized
           /\ Status'.Ready = Status.Ready
           /\ ~RanIn(pass', "reconcileKubeconfig")
           /\ ~RanIn(pass', "reconcileAdditionalKubeconfigs")]_vars

\* a failed update after passes that left Updating false and the cluster ready
C7_Witness ==
    /\ ReconcileSaw("RUNNING") /\ Issued("UpdateCluster")
    /\ pass.rpcErr = ErrUpdateCluster /\ pass.err = ErrUpdateCluster
    /\ IsFalse(GKEControlPlaneUpdatingCondition, GKEControlPlaneUpdatedReason)
    /\ Status.Ready

KnownStatuses ==
    {"PROVISIONING", "RECONCILING", "STOPPING", "ERROR", "DEGRADED", "RUNNING"}

\* C9: a Reconcile pass that finds a status outside the six known ones fails
\* with the unexpected-status error and no requeue-after, issues no create or
\* update call, runs neither the diff nor a kubeconfig step, and its error is
\* not one of the provider's RPC errors.
C9_UnexpectedStatus ==
    (pass.op = "Reconcile" /\ pass.described = "found"
        /\ cluster.Status \notin KnownStatuses) =>
        /\ FailedWith(ErrUnexpectedClusterStatus)
        /\ pass.err \notin ProviderErrors
        /\ ~Issued("CreateCluster") /\ ~Issued("UpdateCluster")
        /\ pass.steps = <<>>

C9_Witness ==
    /\ pass.op = "Reconcile" /\ pass.described = "found"
    /\ cluster.Status = "STATUS_UNSPECIFIED"
    /\ pass.err = ErrUnexpectedClusterStatus

(* The differences between desired and observed state, as the specification *)
(* of the planner states them.                                              *)

\* the release channels differ
ChannelDiffers ==
    convertToSdkReleaseChannel(desired.ReleaseChannel) # cluster.ReleaseChannel

\* the desired version V is set, non-empty, no prefix of the observed O, and not O
VersionDiffers ==
    /\ ~desired.ControlPlaneVersion.nil
    /\ desired.ControlPlaneVersion.v # <<>>
    /\ ~HasPrefix(cluster.CurrentMasterVersion, desired.ControlPlaneVersion.v)
    /\ desired.ControlPlaneVersion.v # cluster.CurrentMasterVersion

\* both absent, or both present with the same enabled flag, the same
\* public-access flag (unset or set) and element-wise equal allow-lists, a nil
\* allow-list counting as an empty one
ConfigsEqual(a, b) ==
    /\ a.nil = b.nil
    /\ ~a.nil =>
           /\ a.Enabled = b.Enabled
           /\ a.GcpPublicCidrsAccessEnabled = b.GcpPublicCidrsAccessEnabled
           /\ a.CidrBlocks.elems = b.CidrBlocks.elems

ConfigDiffers ==
    ~ConfigsEqual(
         convertToSdkMasterAuthorizedNetworksConfig(desired.MasterAuthorizedNetworksConfig),
         cluster.MasterAuthorizedNetworksConfig)

\* the last pass asked the provider for the master version v (an empty
\* DesiredMasterVersion is an unset field of the request)
VersionRequested(v) ==
    Issued("UpdateCluster") /\ v # <<>> /\ pass.updateRequest.DesiredMasterVersion = v

\* C2: on a RUNNING cluster, for a set desired version V and the observed
\* version O, the planner requests a master-version update (the update is
\* issued and carries V) if and only if V is non-empty, V is no prefix of O
\* and V # O.
C2_VersionUpdateIff ==
    (ReconcileSaw("RUNNING") /\ ~pass.panicked /\ ~desired.ControlPlaneVersion.nil) =>
        (VersionRequested(desired.ControlPlaneVersion.v) <=> VersionDiffers)

\* C3: with the desired version unset, a RUNNING pass does not fault, the
\* request carries no master version, and whether an update is issued is
\* decided by the release-channel and authorized-networks diffs alone.
C3_UnsetVersionSatisfied ==
    (ReconcileSaw("RUNNING") /\ desired.ControlPlaneVersion.nil) =>
        /\ ~pass.panicked
        /\ pass.updateRequest.DesiredMasterVersion = <<>>
        /\ Issued("UpdateCluster") <=> (ChannelDiffers \/ ConfigDiffers)

\* C4: a RUNNING pass (one that returns) issues the update call if and only
\* if the release channel, the master version or the authorized-networks
\* config differs, and the request carries exactly the groups that differ.
C4_UpdateIffDiff ==
    (ReconcileSaw("RUNNING") /\ ~pass.panicked) =>
        /\ Issued("UpdateCluster") <=> (ChannelDiffers \/ VersionDiffers \/ ConfigDiffers)
        /\ Issued("UpdateCluster") =>
               /\ pass.updateRequest.DesiredReleaseChannel # "nil" <=> ChannelDiffers
               /\ pass.updateRequest.DesiredMasterVersion # <<>> <=> VersionDiffers
               /\ ~pass.updateRequest.DesiredMasterAuthorizedNetworksConfig.nil
                      <=> ConfigDiffers

\* C5: a RUNNING pass (one that returns) with no difference in any group
\* issues no update, sets Updating false with the "updated" reason, runs the
\* two kubeconfig steps in order and, when they succeed, ends done with both
\* Ready conditions true, Creating false with the "created" reason,
\* initialized and ready.
C5_NoDiffConverges ==
    (ReconcileSaw("RUNNING") /\ ~pass.panicked
        /\ ~ChannelDiffers /\ ~VersionDiffers /\ ~ConfigDiffers) =>
        /\ ~Issued("UpdateCluster")
        /\ IsFalse(GKEControlPlaneUpdatingCondition, GKEControlPlaneUpdatedReason)
        /\ RanIn(pass, "reconcileKubeconfig")
        /\ pass.err = "nil" =>
               /\ pass.steps = <<"checkDiffAndPrepareUpdate", "reconcileKubeconfig",
                                 "reconcileAdditionalKubeconfigs">>
               /\ IsTrue(ReadyCondition) /\ IsTrue(GKEControlPlaneReadyCondition)
               /\ IsFalse(GKEControlPlaneCreatingCondition, GKEControlPlaneCreatedReason)
               /\ Status.Initialized /\ Status.Ready
               /\ Done

\* C8: a Reconcile pass that finds the cluster in ERROR or DEGRADED returns
\* done, issues no create or update call, clears ready and initialized, and
\* marks the control-plane Ready condition false with the Error reason and
\* the first provider-reported condition message.
C8_ErrorDegraded ==
    (ReconcileSaw("ERROR") \/ ReconcileSaw("DEGRADED")) =>
        /\ Done
        /\ ~Issued("CreateCluster") /\ ~Issued("UpdateCluster")
        /\ ~Status.Ready /\ ~Status.Initialized
        /\ IsFalse(GKEControlPlaneReadyCondition, GKEControlPlaneErrorReason)
        /\ Len(cluster.Conditions) > 0 =>
               Status.Conditions[GKEControlPlaneReadyCondition].message
                   = cluster.Conditions[1]

\* the last pass was a Reconcile that found no cluster, listed the pools, and
\* met autopilot with declared pools
AutopilotWithPools ==
    /\ pass.op = "Reconcile" /\ pass.described = "notfound"
    /\ pass.err # ErrGetAllNodePools
    /\ desired.EnableAutopilot /\ Len(desired.NodePools) > 0

\* the reason under which the autopilot rejection is reported
AutopilotRejectionReason ==
    RejectAutopilotPools(NewScope).s.Conditions[ReadyCondition].reason

\* C10: a not-found Reconcile pass with autopilot and declared pools fails
\* with the precondition error and no requeue-after, issues no create call,
\* and marks the conditions false with a reason that is not the generic
\* reconciliation-failed reason and that no other outcome writes.
C10_AutopilotPoolsRejected ==
    /\ AutopilotWithPools =>
           /\ FailedWith(ErrAutopilotClusterMachinePoolsNotAllowed)
           /\ ~Issued("CreateCluster")
           /\ AutopilotRejectionReason # GKEControlPlaneReconciliationFailedReason
           /\ \A t \in {ReadyCondition, GKEControlPlaneReadyCondition,
                        GKEControlPlaneCreatingCondition} :
                  IsFalse(t, AutopilotRejectionReason)
    /\ (pass.op # "none" /\ ~AutopilotWithPools) =>
           \A t \in pass.written : Status.Conditions[t].reason # AutopilotRejectionReason

\* the last pass was a Reconcile that found no cluster and listed the pools
ReconcileListed ==
    /\ pass.op = "Reconcile" /\ pass.described = "notfound"
    /\ pass.err # ErrGetAllNodePools

\* the last pass met no autopilot and no declared pool
NoPoolDeclared ==
    ReconcileListed /\ ~desired.EnableAutopilot /\ Len(desired.NodePools) = 0

\* C11: a not-found Reconcile pass with autopilot disabled and zero declared
\* pools returns requeue-after(DefaultRetryTime) with no error, issues no
\* create call, marks the Ready and Creating conditions false with the
\* requires-at-least-one-node-pool reason, and leaves initialized and ready
\* false.
C11_WaitForNodePool ==
    NoPoolDeclared =>
        /\ RequeuedAfterRetryTime
        /\ ~Issued("CreateCluster")
        /\ \A t \in {ReadyCondition, GKEControlPlaneReadyCondition,
                     GKEControlPlaneCreatingCondition} :
               IsFalse(t, GKEControlPlaneRequiresAtLeastOneNodePoolReason)
        /\ ~Status.Initialized /\ ~Status.Ready

\* the wait is reached in a second pass, which wrote the three conditions
C11_Witness ==
    /\ NoPoolDeclared /\ passes = 2
    /\ pass.written = {ReadyCondition, GKEControlPlaneReadyCondition,
                       GKEControlPlaneCreatingCondition}
    /\ pass.calls = <<"GetCluster">>

\* the last pass listed the pools and met the pool precondition of a create:
\* autopilot with no declared pool, or no autopilot with at least one
PoolPreconditionHolds ==
    /\ ReconcileListed
    /\ \/ desired.EnableAutopilot /\ Len(desired.NodePools) = 0
       \/ ~desired.EnableAutopilot /\ Len(desired.NodePools) >= 1

\* the name under which a declared pool is sent to the provider
SdkPoolName(p) == IF p.NodePoolName = 0 THEN p.Name ELSE p.NodePoolName

\* the last pass issued exactly one create call, with the declared pools in
\* declaration order when autopilot is off and with no pool when it is on
OneCreateWithDeclaredPools ==
    /\ Cardinality({i \in 1..Len(pass.calls) : pass.calls[i] = "CreateCluster"}) = 1
    /\ pass.createRequest.Autopilot = desired.EnableAutopilot
    /\ LET sent == pass.createRequest.NodePools.elems
       IN  IF desired.EnableAutopilot THEN Len(sent) = 0
           ELSE /\ Len(sent) = Len(desired.NodePools)
                /\ \A i \in 1..Len(sent) : sent[i].Name = SdkPoolName(desired.NodePools[i])

\* what a successful create leaves
CreateStarted ==
    /\ IsTrue(GKEControlPlaneCreatingCondition)
    /\ IsFalse(ReadyCondition, GKEControlPlaneCreatingReason)
    /\ IsFalse(GKEControlPlaneReadyCondition, GKEControlPlaneCreatingReason)
    /\ ~Status.Initialized /\ ~Status.Ready
    /\ RequeuedAfterRetryTime

CreateStepFailed ==
    /\ PoolPreconditionHolds
    /\ ~Issued("CreateCluster") \/ pass.rpcErr = ErrCreateCluster

\* C13: when the create step fails, by the pre-flight check or by the
\* provider's create call, Reconcile returns that error with no
\* requeue-after, both Ready conditions are false with the
\* reconciliation-failed reason and the error's message, and the Creating
\* condition is not true at the end of the pass.
C13_CreateFailed ==
    CreateStepFailed =>
        /\ pass.err = IF Issued("CreateCluster") THEN pass.rpcErr ELSE ErrPreflight
        /\ FailedWith(pass.err)
        /\ \A t \in {ReadyCondition, GKEControlPlaneReadyCondition} :
               /\ IsFalse(t, GKEControlPlaneReconciliationFailedReason)
               /\ Status.Conditions[t].message = pass.err
        /\ ~IsTrue(GKEControlPlaneCreatingCondition)

\* the create call fails in a second pass
C13_Witness ==
    /\ CreateStepFailed /\ passes = 2
    /\ Issued("CreateCluster") /\ pass.err = ErrCreateCluster
    /\ GKEControlPlaneCreatingCondition \in pass.written

\* the number of delete calls a pass issued
DeleteCalls(p) == Cardinality({i \in 1..Len(p.calls) : p.calls[i] = "DeleteCluster"})

C15_DeleteCallOutcome ==
    [][(pass'.op = "Delete" /\ passes' = passes + 1 /\ IssuedIn(pass', "DeleteCluster")) =>
          /\ pass'.rpcErr = "nil" =>
                 /\ ~Status'.Initialized /\ ~Status'.Ready
                 /\ \A t \in {ReadyCondition, GKEControlPlaneReadyCondition} :
                        /\ Status'.Conditions[t].status = "False"
                        /\ Status'.Conditions[t].reason = GKEControlPlaneDeletingReason
                 /\ Status'.Conditions[GKEControlPlaneDeletingCondition].status = "True"
                 /\ ~pass'.panicked /\ pass'.err = "nil"
                 /\ pass'.RequeueAfter = ZeroDuration
          /\ pass'.rpcErr # "nil" =>
                 /\ Status'.Conditions[GKEControlPlaneDeletingCondition].status = "False"
                 /\ Status'.Conditions[GKEControlPlaneDeletingCondition].reason
                        = GKEControlPlaneReconciliationFailedReason
                 /\ Status'.Conditions[GKEControlPlaneDeletingCondition].message
                        = pass'.rpcErr
                 /\ ~pass'.panicked /\ pass'.err = pass'.rpcErr
                 /\ pass'.RequeueAfter = ZeroDuration
                 /\ Status'.Initialized = Status.Initialized
                 /\ Status'.Ready = Status.Ready
                 /\ \A t \in {ReadyCondition, GKEControlPlaneReadyCondition} :
                        Status'.Conditions[t] = Status.Conditions[t]
      ]_vars

\* the delete call fails on a cluster that a Reconcile pass had left ready
C15_Witness ==
    /\ pass.op = "Delete" /\ passes = 2
    /\ Issued("DeleteCluster") /\ pass.rpcErr = ErrDeleteCluster
    /\ pass.err = ErrDeleteCluster
    /\ Status.Ready /\ Status.Initialized
    /\ IsTrue(ReadyCondition) /\ IsTrue(GKEControlPlaneReadyCondition)
    /\ IsFalse(GKEControlPlaneDeletingCondition, GKEControlPlaneReconciliationFailedReason)

\* the conditions that report progress of an operation
ProgressConditions ==
    {GKEControlPlaneCreatingCondition, GKEControlPlaneUpdatingCondition,
     GKEControlPlaneDeletingCondition}

\* C16: a Reconcile pass whose describe call fails returns that error with no
\* requeue-after, issues no create or update call, marks the Ready condition
\* and the control-plane Ready condition false with the
\* reconciliation-failed reason, and writes none of the Creating, Updating
\* and Deleting conditions; a pass that finds no cluster never returns the
\* describe call's error.
C16_DescribeFailed ==
    /\ (pass.op = "Reconcile" /\ pass.described = "error") =>
           /\ pass.rpcErr # "nil" /\ FailedWith(pass.rpcErr)
           /\ ~Issued("CreateCluster") /\ ~Issued("UpdateCluster")
           /\ \A t \in {ReadyCondition, GKEControlPlaneReadyCondition} :
                  IsFalse(t, GKEControlPlaneReconciliationFailedReason)
           /\ pass.written \cap ProgressConditions = {}
    /\ (pass.op # "none" /\ pass.described = "notfound") =>
           pass.err # ErrGetCluster

\* the last pass returned, and what it returned is exactly one of done,
\* requeue-after(DefaultRetryTime) and error: never an immediate requeue,
\* never an error together with a requeue-after
OneOfThreeOutcomes ==
    /\ ~pass.Requeue
    /\ pass.RequeueAfter \in {ZeroDuration, DefaultRetryTime}
    /\ pass.err # "nil" => pass.RequeueAfter = ZeroDuration

\* the last pass, of either operation, found the cluster in a status in which
\* a provider operation is in flight
SawOperationInFlight(op) ==
    /\ pass.op = op /\ pass.described = "found"
    /\ cluster.Status \in {"PROVISIONING", "RECONCILING", "STOPPING"}

FailureReasons ==
    {GKEControlPlaneReconciliationFailedReason, GKEControlPlaneErrorReason,
     GKEControlPlaneRequiresAtLeastOneNodePoolReason}

\* the last pass wrote a condition that records a failure
FailureRecorded ==
    \E t \in pass.written :
        /\ Status.Conditions[t].status = "False"
        /\ Status.Conditions[t].reason \in FailureReasons

\* C18: whenever a pass of Reconcile or Delete returns an error, it has
\* written at least one condition that records the failure reason.
C18_ErrorsRecorded ==
    (pass.op # "none" /\ ~pass.panicked /\ pass.err # "nil") => FailureRecorded

\* the kubeconfig steps, in the order of the code
KubeconfigSteps == <<"reconcileKubeconfig", "reconcileAdditionalKubeconfigs">>

\* the kubeconfig steps that the pass p ran, in the order in which it ran them
KubeconfigStepsOf(p) ==
    SelectSeq(p.steps, LAMBDA x : x \in {KubeconfigSteps[1], KubeconfigSteps[2]})

\* C19: the kubeconfig steps run only in a Reconcile pass that found the
\* cluster RUNNING and for which the planner asked for no update, the
\* primary step first and the additional one second; when the first fails
\* the second does not run; when either fails the pass returns the error,
\* writes neither Ready condition, leaves ready, initialized and the endpoint
\* as they were, and leaves Updating false with the updated reason.
C19_KubeconfigSteps ==
    [][passes' = passes + 1 =>
          /\ KubeconfigStepsOf(pass') # <<>> =>
                 /\ pass'.op = "Reconcile" /\ pass'.described = "found"
                 /\ cluster.Status = "RUNNING"
                 /\ ~checkDiffAndPrepareUpdate(desired, cluster).needUpdate
                 /\ ~IssuedIn(pass', "UpdateCluster")
          /\ KubeconfigStepsOf(pass') \in
                 {<<>>, <<KubeconfigSteps[1]>>, KubeconfigSteps}
          /\ pass'.err = ErrKubeconfig =>
                 KubeconfigStepsOf(pass') = <<KubeconfigSteps[1]>>
          /\ pass'.err = ErrAdditionalKubeconfigs =>
                 KubeconfigStepsOf(pass') = KubeconfigSteps
          /\ pass'.err \in {ErrKubeconfig, ErrAdditionalKubeconfigs} =>
                 /\ ~pass'.panicked /\ pass'.RequeueAfter = ZeroDuration
                 /\ pass'.written = {GKEControlPlaneUpdatingCondition}
                 /\ \A t \in {ReadyCondition, GKEControlPlaneReadyCondition} :
                        Status'.Conditions[t] = Status.Conditions[t]
                 /\ Status'.Ready = Status.Ready
                 /\ Status'.Initialized = Status.Initialized
                 /\ Endpoint' = Endpoint
                 /\ Status'.Conditions[GKEControlPlaneUpdatingCondition].status = "False"
                 /\ Status'.Conditions[GKEControlPlaneUpdatingCondition].reason
                        = GKEControlPlaneUpdatedReason
      ]_vars

\* the additional kubeconfig step fails after the primary one ran
C19_Witness ==
    /\ pass.op = "Reconcile" /\ cluster.Status = "RUNNING"
    /\ pass.err = ErrAdditionalKubeconfigs
    /\ KubeconfigStepsOf(pass) = KubeconfigSteps
    /\ IsFalse(GKEControlPlaneUpdatingCondition, GKEControlPlaneUpdatedReason)
    /\ ~IsTrue(ReadyCondition) /\ Endpoint = ""

\* C20: compareMasterAuthorizedNetworksConfig(a, b) reports equal exactly
\* when both are absent, or both are present with the same enabled flag, the
\* same public-access flag (both unset, or both set to one value) and
\* element-wise equal allow-lists, a nil allow-list counting as an empty
\* one; it reports on every pair, what it reports on (a, a) is equal, and
\* what it reports on (a, b) it reports on (b, a).
C20_CompareIsEquality ==
    compared.result # "none" =>
        /\ compared.result \in {"true", "false"}
        /\ compared.result = "true" <=> ConfigsEqual(compared.a, compared.b)
        /\ compared.a = compared.b => compared.result = "true"
        /\ compared.converse = compared.result

\* the canonical disabled form: not enabled, an empty allow-list, the
\* public-access flag set to false
CanonicalDisabled ==
    [nil |-> FALSE, Enabled |-> FALSE, CidrBlocks |-> EmptySlice,
     GcpPublicCidrsAccessEnabled |-> "false"]

\* the last pass asked the provider for an authorized-networks update
NetworksUpdateRequested ==
    /\ Issued("UpdateCluster")
    /\ ~pass.updateRequest.DesiredMasterAuthorizedNetworksConfig.nil

\* C21: with the desired authorized-networks config absent, a RUNNING pass
\* requests an authorized-networks update if and only if the observed config
\* is not equal to the canonical disabled form, and the request then carries
\* that form; a create payload built from an absent config carries it too.
C21_AbsentIsCanonicalDisabled ==
    /\ (ReconcileSaw("RUNNING") /\ desired.MasterAuthorizedNetworksConfig.nil) =>
           /\ NetworksUpdateRequested
                  <=> ~ConfigsEqual(CanonicalDisabled, cluster.MasterAuthorizedNetworksConfig)
           /\ NetworksUpdateRequested =>
                  pass.updateRequest.DesiredMasterAuthorizedNetworksConfig = CanonicalDisabled
    /\ (Issued("CreateCluster") /\ desired.MasterAuthorizedNetworksConfig.nil) =>
           pass.createRequest.MasterAuthorizedNetworksConfig = CanonicalDisabled

\* the status record that the run r of a pass leaves
StatusOf(r) ==
    [Initialized |-> r.s.Initialized, Ready |-> r.s.Ready,
     CurrentVersion |-> r.s.CurrentVersion, Conditions |-> r.s.Conditions]

\* what the run r returns
OutcomeOf(r) == <<r.Requeue, r.RequeueAfter, r.err, r.panicked>>

\* the step that failed in the last pass, as its error tells; a pass that
\* returned no error met no failing step
FailedStep ==
    CASE pass.err = ErrGetCluster -> "describe"
      [] pass.err = ErrGetAllNodePools -> "list"
      [] pass.err = ErrPreflight -> "preflight"
      [] pass.err \in {ErrCreateCluster, ErrUpdateCluster, ErrDeleteCluster} -> "call"
      [] pass.err = ErrKubeconfig -> "kubeconfig"
      [] pass.err = ErrAdditionalKubeconfigs -> "additionalKubeconfigs"
      [] OTHER -> "none"

\* the last pass run once more on the record it left, with the same desired
\* state, the same observed cluster and the same call results
SecondRun ==
    IF pass.op = "Reconcile"
    THEN ReconcilePass(NewScope, desired, cluster, FailedStep)
    ELSE DeletePass(NewScope, cluster, FailedStep)

\* C22: after every pass of Reconcile or Delete, from whatever status record
\* it started, a second run of the same operation with the same desired
\* state, observed cluster and call results leaves initialized, ready, the
\* current version and every condition as the first run left them, and
\* returns what the first run returned.
C22_Idempotent ==
    pass.op # "none" =>
        /\ StatusOf(SecondRun) = Status
        /\ OutcomeOf(SecondRun) = <<pass.Requeue, pass.RequeueAfter, pass.err, pass.panicked>>
        /\ SecondRun.s.calls = pass.calls

\* a Reconcile pass started from a record that an earlier pass had written,
\* kept a condition of that pass, and its second run changes nothing
C22_Witness ==
    /\ pass.op = "Reconcile" /\ passes = 2
    /\ cluster.Status = "RECONCILING" /\ Status.Ready
    /\ IsTrue(GKEControlPlaneUpdatingCondition)
    /\ IsTrue(GKEControlPlaneDeletingCondition)
    /\ StatusOf(SecondRun) = Status

\* the observed configuration satisfies the desired one
DesiredSatisfied ==
    /\ cluster.exists
    /\ ~ChannelDiffers
    /\ hasDesiredVersion(desired.ControlPlaneVersion, cluster.CurrentMasterVersion)
    /\ ~ConfigDiffers

\* the last pass found the desired configuration satisfied and marked both
\* Ready conditions true
ConvergedPass ==
    /\ ReconcileSaw("RUNNING") /\ DesiredSatisfied
    /\ {ReadyCondition, GKEControlPlaneReadyCondition} \subseteq pass.written
    /\ IsTrue(ReadyCondition) /\ IsTrue(GKEControlPlaneReadyCondition)

\* C23: with a fixed desired state whose pool precondition holds, a provider
\* that applies every create and update as requested, and steps that all
\* succeed, repeated Reconcile passes eventually reach a pass that finds the
\* desired configuration satisfied and marks both Ready conditions true, and
\* from that pass on no create or update call is issued.
C23_Converges ==
    <>(ConvergedPass /\ [](~Issued("CreateCluster") /\ ~Issued("UpdateCluster")))

\* the provider calls that change the provider's state
MutatingCalls == {"CreateCluster", "UpdateCluster", "DeleteCluster"}

\* how many calls of the last pass are in the set rpcs
CallsIn(rpcs) == Cardinality({i \in 1..Len(pass.calls) : pass.calls[i] \in rpcs})

\* C24: every pass performs exactly one describe call, before any other
\* provider call, and at most one mutating call; Reconcile issues a create
\* call only when the describe call found no cluster, an update call only
\* when it found the cluster RUNNING, and never a delete call; Delete issues
\* neither a create nor an update call.
C24_CallDiscipline ==
    pass.op # "none" =>
        /\ CallsIn({"GetCluster"}) = 1 /\ pass.calls[1] = "GetCluster"
        /\ CallsIn(MutatingCalls) <= 1
        /\ pass.op = "Reconcile" =>
               /\ Issued("CreateCluster") => pass.described = "notfound"
               /\ Issued("UpdateCluster") =>
                      pass.described = "found" /\ cluster.Status = "RUNNING"
               /\ ~Issued("DeleteCluster")
        /\ pass.op = "Delete" =>
               ~Issued("CreateCluster") /\ ~Issued("UpdateCluster")

\* a Reconcile pass describes a RUNNING cluster and then updates it, after a
\* pass that had marked the deletion as under way
C24_Witness ==
    /\ pass.op = "Reconcile" /\ passes = 2
    /\ pass.described = "found" /\ cluster.Status = "RUNNING"
    /\ pass.calls = <<"GetCluster", "UpdateCluster">>
    /\ IsTrue(GKEControlPlaneDeletingCondition)

\* C25: from the default status record, after any sequence of Reconcile and
\* Delete passes with any provider responses, initialized equals ready.
C25_InitializedIsReady ==
    Status.Initialized = Status.Ready

\* a pass cleared both flags of a cluster that an earlier pass had left
\* initialized and ready
C25_Witness ==
    /\ passes = 2 /\ ReconcileSaw("ERROR")
    /\ ~Status.Initialized /\ ~Status.Ready
    /\ IsTrue(ReadyCondition)

\* C26: at the end of every pass, neither the Ready condition nor the
\* control-plane Ready condition is true while the ready flag is false.
C26_ReadyConditionsFollowFlag ==
    (pass.op # "none" /\ ~Status.Ready) =>
        ~IsTrue(ReadyCondition) /\ ~IsTrue(GKEControlPlaneReadyCondition)

\* C27: at the end of every pass, at most one of the Creating, Updating and
\* Deleting conditions is true.
C27_OneProgressCondition ==
    pass.op # "none" =>
        Cardinality({t \in ProgressConditions : IsTrue(t)}) <= 1

\* the statuses in which Delete issues no call
BusyStatuses == {"PROVISIONING", "RECONCILING", "STOPPING"}

\* the last Delete pass found no cluster and recorded the deletion as done
DeletedObserved ==
    /\ pass.op = "Delete" /\ pass.described = "notfound"
    /\ IsFalse(GKEControlPlaneDeletingCondition, GKEControlPlaneDeletedReason)

\* the last Delete pass found the cluster STOPPING
StoppingObserved ==
    /\ pass.op = "Delete" /\ pass.described = "found"
    /\ ~Issued("DeleteCluster")
    /\ cluster.exists /\ cluster.Status = "STOPPING"

\* C28: when the provider's operations in flight end, an accepted delete
\* moves the cluster through STOPPING to not found and Delete is invoked
\* again and again, a Delete pass eventually finds no cluster and marks
\* Deleting false with the deleted reason; no pass issues the delete call
\* while the cluster is PROVISIONING, RECONCILING or STOPPING, and none
\* issues it after a pass has found the cluster STOPPING.
C28_DeletionProgress ==
    /\ <>DeletedObserved
    /\ [][(pass' # pass /\ IssuedIn(pass', "DeleteCluster"))
              => (cluster.exists /\ cluster.Status \notin BusyStatuses)]_vars
    /\ [](StoppingObserved => []~Issued("DeleteCluster"))

\* a Delete pass finds no cluster after an earlier pass had the delete call
\* accepted
C28_Witness ==
    /\ DeletedObserved
    /\ IsFalse(ReadyCondition, GKEControlPlaneDeletingReason)
    /\ ~cluster.exists

====
